---- MODULE Spec2Model ----
(***************************************************************************)
(* Sector search (SectorSearch.py): counting the drones of a square        *)
(* airspace that fly closer than a conflict radius to another drone, by    *)
(* sorting them into overlapping sectors and scanning each sector.         *)
(*                                                                         *)
(* Three specifications share the module:                                  *)
(*   Spec         one call of count_conflicts, statement by statement      *)
(*   SpecSectors  split_into_sectors on small arguments, then              *)
(*                map_coordinate on the boundaries it returned             *)
(*   SpecScan     get_conflicts on one bucket of drones                    *)
(* Python sequences are 0-based, TLA+ sequences 1-based: drone ids and     *)
(* sector indices keep Python's values, positions in a sequence are        *)
(* shifted by one.                                                         *)
(***************************************************************************)
EXTENDS Integers, Sequences, FiniteSets, TLC

VARIABLES
    pc,               \* position in count_conflicts
    points,           \* argument `drones`: the list of (x,y) pairs
    conflict_radius,  \* argument `conflict_radius`
    limit,            \* argument `limit`
    drones,           \* the list of Drone objects (line 226)
    boundaries,       \* local `boundaries` (line 229)
    sectors,          \* local `sectors` (line 229); <<>> before it exists
    ix,               \* number of drones of drones[0:limit] already assigned
    conflicts,        \* local `conflicts` (line 244)
    batch_conflicts,  \* local `batch_conflicts` (line 255)
    returned,         \* <<>> until the return, then <<num_conflicts>>
    s_pc,             \* SpecSectors: position
    s_args,           \* SpecSectors: arguments of split_into_sectors
    s_out,            \* SpecSectors: what split_into_sectors produced
    s_position,       \* SpecSectors: argument `position` of map_coordinate
    s_mapped,         \* SpecSectors: what map_coordinate returned
    g_pc,             \* SpecScan: position
    g_drones,         \* SpecScan: argument `drones` of get_conflicts
    g_rad,            \* SpecScan: argument `conflict_rad`
    g_out             \* SpecScan: the list get_conflicts returned

vars == <<pc, points, conflict_radius, limit, drones, boundaries, sectors, ix,
          conflicts, batch_conflicts, returned, s_pc, s_args, s_out, s_position,
          s_mapped, g_pc, g_drones, g_rad, g_out>>

ccVars == <<pc, points, conflict_radius, limit, drones, boundaries, sectors, ix,
            conflicts, batch_conflicts, returned>>
secVars == <<s_pc, s_args, s_out, s_position, s_mapped>>
scanVars == <<g_pc, g_drones, g_rad, g_out>>

None == "None"

(***************************************************************************)
(* Program constants.                                                      *)
(***************************************************************************)
AIRSPACE_SIZE == 128000
CONFLICT_RADIUS == 500
PAD_MULT == 10

(***************************************************************************)
(* Bounds of the model.                                                    *)
(***************************************************************************)
MaxPoints == 3
MaxAirspace == 20
MaxRadius == 4
MaxPad == 2
MaxBucket == 3

(***************************************************************************)
(* Generic helpers.                                                        *)
(***************************************************************************)
Abs(n) == IF n < 0 THEN -n ELSE n

Range(s) == {s[i] : i \in 1..Len(s)}

SeqsUpTo(S, n) == UNION {[1..k -> S] : k \in 0..n}

\* s[0:stop] of Python: a negative stop counts from the end.
PySlice(s, stop) ==
    LET n == Len(s)
        e == IF stop < 0 THEN (IF n + stop < 0 THEN 0 ELSE n + stop)
             ELSE (IF stop > n THEN n ELSE stop)
    IN  SubSeq(s, 1, e)

(***************************************************************************)
(* Drone and dist.                                                         *)
(***************************************************************************)
Drone(coords, drone_id) == [coords |-> coords, drone_id |-> drone_id]

\* The square of dist(p1, p2): dist is its (real) square root.
distSq(p1, p2) ==
    (p1[1] - p2[1]) * (p1[1] - p2[1]) + (p1[2] - p2[2]) * (p1[2] - p2[2])

\* InConflict with the comparison `distance <= conflict_rad`.
InConflict_NonStrict(p1, p2, rad) ==
    /\ rad >= 0
    /\ Abs(p1[1] - p2[1]) <= rad
    /\ Abs(p1[2] - p2[2]) <= rad
    /\ distSq(p1, p2) <= rad * rad

\* `dist(a, b) < conflict_rad` on integers: a square root is below rad iff
\* rad is positive and the square is below rad^2.  The two Abs conjuncts
\* follow from the last one; they keep the squares within machine integers.
InConflict(p1, p2, rad) ==
    /\ rad > 0
    /\ Abs(p1[1] - p2[1]) < rad
    /\ Abs(p1[2] - p2[2]) < rad
    /\ distSq(p1, p2) < rad * rad

(***************************************************************************)
(* split_into_sectors.                                                     *)
(***************************************************************************)
\* RangeStride over range(n + 1).
RangeStride_Inclusive(n, step) ==
    IF n + 1 <= 0 THEN <<>>
    ELSE IF step > 0
         THEN [i \in 1..((n \div step) + 1) |-> (i - 1) * step]
         ELSE [i \in 1..((n \div (-step)) + 1) |-> n + (i - 1) * step]

\* range(n)[::step] of Python 2, for step # 0.
RangeStride(n, step) ==
    IF n <= 0 THEN <<>>
    ELSE IF step > 0
         THEN [i \in 1..(((n - 1) \div step) + 1) |-> (i - 1) * step]
         ELSE [i \in 1..(((n - 1) \div (-step)) + 1) |-> (n - 1) + (i - 1) * step]

SectorKeys(n) == (0..n) \X (0..n)

split_into_sectors(airspace_size, radius, pad_mult) ==
    IF radius * pad_mult = 0
    THEN [error |-> "ValueError", boundaries |-> <<>>, sectors |-> <<>>]
    ELSE LET b == Append(RangeStride(airspace_size, radius * pad_mult),
                         airspace_size)
         IN  [error |-> None,
              boundaries |-> b,
              sectors |-> [k \in SectorKeys(Len(b)) |-> <<>>]]

(***************************************************************************)
(* map_coordinate.                                                         *)
(***************************************************************************)
\* map_coordinate falling back to len(boundaries) when no boundary is above.
map_coordinate_FallbackLen(bnds, position) ==
    LET above == {i \in 1..Len(bnds) : bnds[i] > position}
        field == IF above # {}
                 THEN (CHOOSE i \in above : \A j \in above : i <= j) - 1
                 ELSE Len(bnds)
    IN  <<field - 1, field>>

map_coordinate(bnds, position) ==
    LET above == {i \in 1..Len(bnds) : bnds[i] > position}
        field == IF above # {}
                 THEN (CHOOSE i \in above : \A j \in above : i <= j) - 1
                 ELSE Len(bnds) - 1
    IN  <<field - 1, field>>

(***************************************************************************)
(* get_conflicts.                                                          *)
(***************************************************************************)
RECURSIVE InnerLoop(_, _, _, _, _)
InnerLoop(ds, rad, ax, bx, acc) ==
    IF bx > Len(ds) THEN acc
    ELSE InnerLoop(ds, rad, ax, bx + 1,
             IF InConflict(ds[ax].coords, ds[bx].coords, rad)
             THEN acc \o <<ds[ax].drone_id, ds[bx].drone_id>>
             ELSE acc)

RECURSIVE OuterLoop(_, _, _, _)
OuterLoop(ds, rad, ax, acc) ==
    IF ax > Len(ds) THEN acc
    ELSE OuterLoop(ds, rad, ax + 1, InnerLoop(ds, rad, ax, ax + 1, acc))

\* [v for ix,v in enumerate(c) if v not in c[ix+1:]]: the last occurrence of
\* every value stays.
RECURSIVE KeepLast(_)
KeepLast(c) ==
    IF c = <<>> THEN <<>>
    ELSE IF Head(c) \in Range(Tail(c)) THEN KeepLast(Tail(c))
         ELSE <<Head(c)>> \o KeepLast(Tail(c))

get_conflicts(ds, rad) ==
    IF Len(ds) < 2 THEN <<>>
    ELSE KeepLast(OuterLoop(ds, rad, 1, <<>>))

(***************************************************************************)
(* np.unique: the sorted sequence of the distinct values.                  *)
(***************************************************************************)
RECURSIVE SortedSeq(_)
SortedSeq(S) ==
    IF S = {} THEN <<>>
    ELSE LET m == CHOOSE x \in S : \A y \in S : x <= y
         IN  <<m>> \o SortedSeq(S \ {m})

\* npUnique leaving the duplicates in.
npUnique_NoDedup(c) == c

npUnique(c) == SortedSeq(Range(c))

(***************************************************************************)
(* count_conflicts.                                                        *)
(***************************************************************************)
\* LimitOK without the upper bound.
LimitOK_NoUpper(lim, n) == -1 <= lim

\* The assert of line 222.
LimitOK(lim, n) == -1 <= lim /\ lim <= n

\* [Drone(drone, drone_id) for drone_id, drone in enumerate(drones)]
MakeDrones(pts) == [i \in 1..Len(pts) |-> Drone(pts[i], i - 1)]

\* [(x,y) for x in xs for y in ys]
SectorLocs(xs, ys) ==
    <<<<xs[1], ys[1]>>, <<xs[1], ys[2]>>, <<xs[2], ys[1]>>, <<xs[2], ys[2]>>>>

\* sectors[sector_loc].append(drone) for every sector_loc of `locs`, in
\* order; a sector_loc that is no key of the dictionary raises KeyError and
\* leaves the appends already made.
RECURSIVE AppendAt(_, _, _)
AppendAt(secs, locs, drone) ==
    IF locs = <<>> THEN [error |-> None, sectors |-> secs]
    ELSE IF Head(locs) \notin DOMAIN secs
         THEN [error |-> "KeyError", sectors |-> secs]
         ELSE AppendAt([secs EXCEPT ![Head(locs)] = Append(@, drone)],
                       Tail(locs), drone)

\* The body of the loop of lines 232-239 for one drone.
AssignDrone(secs, bnds, drone) ==
    LET xs == map_coordinate(bnds, drone.coords[1])
        ys == map_coordinate(bnds, drone.coords[2])
    IN  AppendAt(secs, SectorLocs(xs, ys), drone)

\* The order in which sectors.iteritems() (line 246) yields the keys of the
\* dictionary that split_into_sectors() builds for the default grid (line
\* 129: the 28 x 28 keys inserted x by x, y by y): the slot order of the
\* hash table of CPython 2.7 on a 64-bit build, where a key (x, y) hashes to
\* ((0x345678 ^ x) * 1000003 ^ y) * 1082525 + 97531 in 64-bit arithmetic,
\* collisions are resolved by the perturbed probe sequence, and the table
\* is rebuilt in slot order at 6, 22, 86 and 342 keys (to 32, 128, 512 and
\* 2048 slots).  The language fixes no order; only the set of the ids
\* collected in this order is used afterwards (line 249).
SectorOrder ==
    <<
       <<7, 3>>, <<20, 25>>, <<16, 9>>, <<19, 4>>, <<17, 20>>, <<7, 25>>, <<22, 19>>,
       <<20, 7>>, <<18, 19>>, <<23, 26>>, <<21, 6>>, <<8, 5>>, <<9, 0>>, <<10, 7>>,
       <<11, 22>>, <<0, 17>>, <<24, 14>>, <<14, 1>>, <<12, 17>>, <<25, 15>>, <<15, 4>>,
       <<13, 20>>, <<2, 27>>, <<26, 12>>, <<3, 2>>, <<27, 1>>, <<4, 5>>, <<5, 24>>,
       <<16, 0>>, <<6, 23>>, <<19, 13>>, <<17, 13>>, <<7, 22>>, <<20, 14>>, <<18, 10>>,
       <<23, 19>>, <<21, 15>>, <<8, 12>>, <<22, 12>>, <<9, 9>>, <<23, 9>>, <<10, 14>>,
       <<8, 18>>, <<11, 15>>, <<9, 19>>, <<24, 21>>, <<14, 8>>, <<12, 8>>, <<1, 21>>,
       <<25, 16>>, <<15, 13>>, <<13, 13>>, <<2, 18>>, <<26, 23>>, <<0, 14>>, <<3, 11>>,
       <<27, 6>>, <<1, 15>>, <<4, 12>>, <<2, 12>>, <<5, 1>>, <<3, 17>>, <<16, 7>>,
       <<6, 14>>, <<19, 18>>, <<17, 6>>, <<7, 15>>, <<20, 21>>, <<18, 5>>, <<21, 8>>,
       <<17, 24>>, <<22, 7>>, <<23, 6>>, <<10, 9>>, <<8, 25>>, <<11, 4>>, <<9, 20>>,
       <<14, 19>>, <<12, 7>>, <<10, 19>>, <<25, 25>>, <<15, 10>>, <<13, 6>>, <<11, 26>>,
       <<0, 5>>, <<24, 2>>, <<1, 0>>, <<25, 3>>, <<4, 11>>, <<2, 7>>, <<5, 10>>,
       <<3, 22>>, <<6, 1>>, <<4, 17>>, <<19, 27>>, <<7, 4>>, <<5, 20>>, <<16, 20>>,
       <<6, 27>>, <<21, 17>>, <<19, 1>>, <<17, 17>>, <<18, 22>>, <<8, 0>>, <<14, 26>>,
       <<10, 26>>, <<15, 19>>, <<11, 19>>, <<26, 25>>, <<24, 9>>, <<12, 20>>, <<27, 20>>,
       <<1, 25>>, <<25, 4>>, <<13, 25>>, <<26, 3>>, <<27, 10>>, <<4, 24>>, <<20, 27>>,
       <<16, 11>>, <<6, 18>>, <<21, 26>>, <<19, 6>>, <<17, 10>>, <<7, 27>>, <<22, 17>>,
       <<20, 1>>, <<18, 17>>, <<23, 20>>, <<21, 4>>, <<8, 7>>, <<22, 11>>, <<9, 6>>,
       <<10, 5>>, <<15, 24>>, <<11, 8>>, <<0, 19>>, <<24, 16>>, <<14, 7>>, <<12, 19>>,
       <<1, 18>>, <<25, 13>>, <<15, 6>>, <<13, 18>>, <<2, 25>>, <<26, 10>>, <<0, 9>>,
       <<3, 4>>, <<27, 3>>, <<4, 7>>, <<5, 6>>, <<16, 2>>, <<6, 21>>, <<19, 15>>,
       <<17, 3>>, <<7, 16>>, <<20, 8>>, <<18, 8>>, <<16, 24>>, <<21, 13>>, <<8, 14>>,
       <<22, 2>>, <<9, 15>>, <<23, 11>>, <<10, 12>>, <<8, 20>>, <<11, 1>>, <<9, 17>>,
       <<24, 23>>, <<14, 14>>, <<12, 10>>, <<10, 22>>, <<25, 22>>, <<15, 15>>, <<13, 11>>,
       <<2, 16>>, <<26, 21>>, <<0, 0>>, <<3, 13>>, <<27, 24>>, <<1, 13>>, <<4, 14>>,
       <<2, 10>>, <<5, 15>>, <<3, 19>>, <<6, 12>>, <<4, 20>>, <<19, 20>>, <<17, 4>>,
       <<7, 9>>, <<20, 23>>, <<18, 3>>, <<21, 22>>, <<22, 5>>, <<23, 0>>, <<8, 27>>,
       <<11, 6>>, <<9, 26>>, <<14, 17>>, <<12, 1>>, <<10, 17>>, <<15, 20>>, <<13, 4>>,
       <<0, 7>>, <<24, 4>>, <<27, 17>>, <<1, 6>>, <<25, 1>>, <<2, 5>>, <<26, 6>>,
       <<5, 8>>, <<3, 24>>, <<6, 7>>, <<4, 19>>, <<7, 6>>, <<5, 18>>, <<16, 22>>,
       <<6, 25>>, <<19, 3>>, <<17, 23>>, <<20, 4>>, <<18, 20>>, <<23, 25>>, <<8, 2>>,
       <<9, 3>>, <<14, 24>>, <<10, 24>>, <<11, 21>>, <<24, 11>>, <<14, 2>>, <<12, 22>>,
       <<27, 22>>, <<25, 10>>, <<13, 23>>, <<26, 1>>, <<3, 1>>, <<27, 12>>, <<4, 26>>,
       <<5, 27>>, <<16, 13>>, <<6, 16>>, <<21, 24>>, <<19, 8>>, <<17, 8>>, <<7, 21>>,
       <<22, 23>>, <<20, 3>>, <<18, 15>>, <<23, 22>>, <<21, 2>>, <<8, 9>>, <<22, 9>>,
       <<9, 4>>, <<23, 12>>, <<10, 3>>, <<15, 26>>, <<11, 10>>, <<0, 21>>, <<24, 18>>,
       <<14, 5>>, <<12, 13>>, <<1, 16>>, <<25, 19>>, <<15, 0>>, <<13, 16>>, <<2, 23>>,
       <<26, 8>>, <<0, 11>>, <<3, 6>>, <<27, 5>>, <<1, 10>>, <<4, 1>>, <<5, 4>>,
       <<16, 4>>, <<6, 11>>, <<19, 17>>, <<17, 1>>, <<7, 18>>, <<20, 10>>, <<18, 6>>,
       <<16, 26>>, <<21, 11>>, <<17, 27>>, <<22, 0>>, <<9, 13>>, <<23, 5>>, <<10, 10>>,
       <<8, 22>>, <<11, 3>>, <<9, 23>>, <<24, 25>>, <<14, 12>>, <<12, 4>>, <<10, 20>>,
       <<25, 20>>, <<15, 9>>, <<13, 9>>, <<11, 25>>, <<26, 19>>, <<0, 2>>, <<3, 15>>,
       <<27, 26>>, <<1, 3>>, <<4, 8>>, <<2, 8>>, <<5, 13>>, <<3, 21>>, <<6, 2>>,
       <<4, 22>>, <<19, 22>>, <<7, 11>>, <<5, 23>>, <<20, 17>>, <<18, 1>>, <<16, 17>>,
       <<21, 20>>, <<22, 27>>, <<18, 27>>, <<23, 2>>, <<9, 24>>, <<14, 23>>, <<12, 3>>,
       <<15, 22>>, <<13, 2>>, <<26, 26>>, <<0, 25>>, <<24, 6>>, <<12, 25>>, <<27, 19>>,
       <<1, 4>>, <<25, 7>>, <<2, 3>>, <<26, 4>>, <<3, 26>>, <<27, 9>>, <<6, 5>>,
       <<7, 0>>, <<5, 16>>, <<20, 24>>, <<16, 8>>, <<19, 5>>, <<17, 21>>, <<22, 18>>,
       <<20, 6>>, <<18, 18>>, <<23, 27>>, <<21, 7>>, <<8, 4>>, <<9, 1>>, <<10, 6>>,
       <<11, 23>>, <<0, 16>>, <<24, 13>>, <<14, 0>>, <<12, 16>>, <<25, 8>>, <<15, 5>>,
       <<13, 21>>, <<2, 26>>, <<26, 15>>, <<3, 3>>, <<27, 14>>, <<4, 4>>, <<5, 25>>,
       <<16, 15>>, <<6, 22>>, <<19, 10>>, <<17, 14>>, <<7, 23>>, <<22, 21>>, <<20, 13>>,
       <<18, 13>>, <<23, 16>>, <<21, 0>>, <<8, 11>>, <<22, 15>>, <<9, 10>>, <<23, 14>>,
       <<10, 1>>, <<8, 17>>, <<11, 12>>, <<0, 23>>, <<24, 20>>, <<14, 11>>, <<12, 15>>,
       <<1, 22>>, <<25, 17>>, <<15, 2>>, <<13, 14>>, <<2, 21>>, <<26, 22>>, <<0, 13>>,
       <<3, 8>>, <<27, 7>>, <<1, 8>>, <<4, 3>>, <<2, 15>>, <<5, 2>>, <<16, 6>>,
       <<6, 9>>, <<19, 19>>, <<17, 7>>, <<7, 12>>, <<20, 20>>, <<18, 4>>, <<21, 9>>,
       <<17, 25>>, <<22, 6>>, <<23, 7>>, <<10, 8>>, <<8, 24>>, <<11, 5>>, <<9, 21>>,
       <<24, 27>>, <<14, 18>>, <<12, 6>>, <<10, 18>>, <<25, 26>>, <<15, 11>>, <<13, 7>>,
       <<11, 27>>, <<26, 17>>, <<0, 4>>, <<24, 1>>, <<1, 1>>, <<4, 10>>, <<2, 6>>,
       <<5, 11>>, <<3, 23>>, <<6, 0>>, <<4, 16>>, <<19, 24>>, <<7, 5>>, <<5, 21>>,
       <<20, 19>>, <<16, 19>>, <<6, 26>>, <<21, 18>>, <<17, 18>>, <<22, 25>>, <<18, 25>>,
       <<14, 21>>, <<15, 16>>, <<13, 0>>, <<11, 16>>, <<26, 24>>, <<0, 27>>, <<24, 8>>,
       <<12, 27>>, <<27, 21>>, <<1, 26>>, <<25, 5>>, <<13, 26>>, <<2, 1>>, <<26, 2>>,
       <<27, 11>>, <<7, 2>>, <<20, 26>>, <<16, 10>>, <<21, 27>>, <<19, 7>>, <<17, 11>>,
       <<7, 24>>, <<22, 16>>, <<20, 0>>, <<18, 16>>, <<23, 21>>, <<21, 5>>, <<8, 6>>,
       <<22, 10>>, <<9, 7>>, <<10, 4>>, <<15, 25>>, <<11, 9>>, <<0, 18>>, <<24, 15>>,
       <<14, 6>>, <<12, 18>>, <<1, 19>>, <<25, 14>>, <<15, 7>>, <<13, 19>>, <<2, 24>>,
       <<26, 13>>, <<0, 8>>, <<3, 5>>, <<27, 0>>, <<4, 6>>, <<5, 7>>, <<16, 1>>,
       <<6, 20>>, <<19, 12>>, <<17, 12>>, <<7, 17>>, <<20, 15>>, <<18, 11>>, <<23, 18>>,
       <<21, 14>>, <<8, 13>>, <<22, 13>>, <<9, 8>>, <<23, 8>>, <<10, 15>>, <<8, 19>>,
       <<11, 14>>, <<9, 18>>, <<24, 22>>, <<14, 9>>, <<12, 9>>, <<1, 20>>, <<25, 23>>,
       <<15, 12>>, <<13, 12>>, <<2, 19>>, <<26, 20>>, <<0, 15>>, <<3, 10>>, <<27, 25>>,
       <<1, 14>>, <<4, 13>>, <<2, 13>>, <<5, 0>>, <<3, 16>>, <<6, 15>>, <<19, 21>>,
       <<17, 5>>, <<7, 14>>, <<20, 22>>, <<18, 2>>, <<21, 23>>, <<22, 4>>, <<23, 1>>,
       <<8, 26>>, <<11, 7>>, <<9, 27>>, <<14, 16>>, <<12, 0>>, <<10, 16>>, <<25, 24>>,
       <<15, 21>>, <<13, 5>>, <<0, 6>>, <<24, 3>>, <<1, 7>>, <<25, 2>>, <<2, 4>>,
       <<5, 9>>, <<3, 25>>, <<6, 6>>, <<4, 18>>, <<19, 26>>, <<7, 7>>, <<5, 19>>,
       <<16, 21>>, <<6, 24>>, <<21, 16>>, <<19, 0>>, <<17, 16>>, <<18, 23>>, <<8, 1>>,
       <<14, 27>>, <<10, 27>>, <<15, 18>>, <<11, 18>>, <<24, 10>>, <<12, 21>>, <<27, 23>>,
       <<1, 24>>, <<25, 11>>, <<13, 24>>, <<26, 0>>, <<27, 13>>, <<4, 25>>, <<16, 12>>,
       <<6, 19>>, <<21, 25>>, <<19, 9>>, <<17, 9>>, <<7, 26>>, <<22, 22>>, <<20, 2>>,
       <<18, 14>>, <<23, 23>>, <<21, 3>>, <<8, 8>>, <<22, 8>>, <<9, 5>>, <<23, 13>>,
       <<10, 2>>, <<15, 27>>, <<11, 11>>, <<0, 20>>, <<24, 17>>, <<14, 4>>, <<12, 12>>,
       <<1, 17>>, <<25, 12>>, <<15, 1>>, <<13, 17>>, <<2, 22>>, <<26, 11>>, <<0, 10>>,
       <<3, 7>>, <<27, 2>>, <<1, 11>>, <<4, 0>>, <<5, 5>>, <<16, 3>>, <<6, 10>>,
       <<19, 14>>, <<17, 2>>, <<7, 19>>, <<20, 9>>, <<18, 9>>, <<16, 25>>, <<21, 12>>,
       <<8, 15>>, <<22, 3>>, <<9, 14>>, <<23, 10>>, <<10, 13>>, <<8, 21>>, <<11, 0>>,
       <<9, 16>>, <<24, 24>>, <<14, 15>>, <<12, 11>>, <<10, 23>>, <<25, 21>>, <<15, 14>>,
       <<13, 10>>, <<2, 17>>, <<26, 18>>, <<0, 1>>, <<3, 12>>, <<27, 27>>, <<1, 12>>,
       <<4, 15>>, <<2, 11>>, <<5, 14>>, <<3, 18>>, <<6, 13>>, <<4, 21>>, <<19, 23>>,
       <<7, 8>>, <<20, 16>>, <<18, 0>>, <<16, 16>>, <<21, 21>>, <<22, 26>>, <<18, 26>>,
       <<23, 3>>, <<9, 25>>, <<14, 22>>, <<12, 2>>, <<15, 23>>, <<13, 3>>, <<0, 24>>,
       <<24, 5>>, <<12, 24>>, <<27, 16>>, <<1, 5>>, <<25, 0>>, <<2, 2>>, <<26, 7>>,
       <<3, 27>>, <<6, 4>>, <<7, 1>>, <<5, 17>>, <<16, 23>>, <<19, 2>>, <<17, 22>>,
       <<20, 5>>, <<18, 21>>, <<23, 24>>, <<8, 3>>, <<9, 2>>, <<14, 25>>, <<10, 25>>,
       <<11, 20>>, <<24, 12>>, <<14, 3>>, <<12, 23>>, <<25, 9>>, <<13, 22>>, <<26, 14>>,
       <<3, 0>>, <<27, 15>>, <<4, 27>>, <<5, 26>>, <<16, 14>>, <<6, 17>>, <<19, 11>>,
       <<17, 15>>, <<7, 20>>, <<22, 20>>, <<20, 12>>, <<18, 12>>, <<23, 17>>, <<21, 1>>,
       <<8, 10>>, <<22, 14>>, <<9, 11>>, <<23, 15>>, <<10, 0>>, <<8, 16>>, <<11, 13>>,
       <<0, 22>>, <<24, 19>>, <<14, 10>>, <<12, 14>>, <<1, 23>>, <<25, 18>>, <<15, 3>>,
       <<13, 15>>, <<2, 20>>, <<26, 9>>, <<0, 12>>, <<3, 9>>, <<27, 4>>, <<1, 9>>,
       <<4, 2>>, <<2, 14>>, <<5, 3>>, <<16, 5>>, <<6, 8>>, <<19, 16>>, <<17, 0>>,
       <<7, 13>>, <<20, 11>>, <<18, 7>>, <<16, 27>>, <<21, 10>>, <<17, 26>>, <<22, 1>>,
       <<9, 12>>, <<23, 4>>, <<10, 11>>, <<8, 23>>, <<11, 2>>, <<9, 22>>, <<24, 26>>,
       <<14, 13>>, <<12, 5>>, <<10, 21>>, <<25, 27>>, <<15, 8>>, <<13, 8>>, <<11, 24>>,
       <<26, 16>>, <<0, 3>>, <<24, 0>>, <<3, 14>>, <<1, 2>>, <<4, 9>>, <<2, 9>>,
       <<5, 12>>, <<3, 20>>, <<6, 3>>, <<4, 23>>, <<19, 25>>, <<7, 10>>, <<5, 22>>,
       <<20, 18>>, <<16, 18>>, <<21, 19>>, <<17, 19>>, <<22, 24>>, <<18, 24>>, <<14, 20>>,
       <<15, 17>>, <<13, 1>>, <<11, 17>>, <<26, 27>>, <<0, 26>>, <<24, 7>>, <<12, 26>>,
       <<27, 18>>, <<1, 27>>, <<25, 6>>, <<13, 27>>, <<2, 0>>, <<26, 5>>, <<27, 8>>
    >>

\* Passes lo..hi of the loop of lines 246-247.
RECURSIVE ScanFrom(_, _, _, _)
ScanFrom(secs, rad, lo, hi) ==
    IF lo > hi THEN <<>>
    ELSE IF lo = hi THEN get_conflicts(secs[SectorOrder[lo]], rad)
    ELSE LET mid == (lo + hi) \div 2
         IN  ScanFrom(secs, rad, lo, mid) \o ScanFrom(secs, rad, mid + 1, hi)

\* The loop of lines 246-247 over the dictionary of the default grid.
ScanSectors(secs, rad) == ScanFrom(secs, rad, 1, Len(SectorOrder))

\* The whole loop of lines 232-239 over `ds`, from position i on.
RECURSIVE AssignFrom(_, _, _, _)
AssignFrom(secs, bnds, ds, i) ==
    IF i > Len(ds) THEN [error |-> None, sectors |-> secs]
    ELSE LET out == AssignDrone(secs, bnds, ds[i])
         IN  IF out.error # None THEN out
             ELSE AssignFrom(out.sectors, bnds, ds, i + 1)

\* count_conflicts as a function of its arguments: the error it raises, or
\* None and the count it returns.
count_conflicts(pts, rad, lim) ==
    IF ~LimitOK(lim, Len(pts)) THEN [error |-> "AssertionError", value |-> 0]
    ELSE LET grid == split_into_sectors(AIRSPACE_SIZE, CONFLICT_RADIUS, PAD_MULT)
             out == AssignFrom(grid.sectors, grid.boundaries,
                               PySlice(MakeDrones(pts), lim), 1)
         IN  IF out.error # None THEN [error |-> out.error, value |-> 0]
             ELSE [error |-> None,
                   value |-> Len(npUnique(ScanSectors(out.sectors, rad)))]

(***************************************************************************)
(* Spec: one call of count_conflicts.                                      *)
(***************************************************************************)
\* The points the input lists are made of: two in one cell, one on each
\* side of the boundary 5000, one two cells away, one on the outer edge of
\* the airspace and one below 0.
TestPointSeq ==
    << <<0, 0>>, <<2, 2>>, <<4999, 0>>, <<5000, 0>>, <<10000, 0>>,
       <<128000, 0>>, <<-1, 0>> >>

TestPoints == Range(TestPointSeq)

Rank(p) == CHOOSE i \in 1..Len(TestPointSeq) : TestPointSeq[i] = p

\* The input lists: up to MaxPoints points, repetitions included, each
\* selection of points in one order (that of TestPointSeq).  SpecScan takes
\* the buckets of get_conflicts in every order.
TestInputs ==
    {s \in SeqsUpTo(TestPoints, MaxPoints) :
        \A i \in 1..(Len(s) - 1) : Rank(s[i]) <= Rank(s[i + 1])}

TestRadii == {4, 5002}

NotCalled == [error |-> "NotCalled", boundaries |-> <<>>, sectors |-> <<>>]

SecIdle ==
    /\ s_pc = "idle"
    /\ s_args = [airspace_size |-> 0, conflict_radius |-> 0, pad_mult |-> 0]
    /\ s_out = NotCalled /\ s_position = 0 /\ s_mapped = <<>>

ScanIdle ==
    /\ g_pc = "idle" /\ g_drones = <<>> /\ g_rad = 0 /\ g_out = <<>>

CcIdle ==
    /\ pc = "idle" /\ points = <<>> /\ conflict_radius = 0 /\ limit = -1
    /\ drones = <<>> /\ boundaries = <<>> /\ sectors = <<>> /\ ix = 0
    /\ conflicts = <<>> /\ batch_conflicts = <<>> /\ returned = <<>>

Init ==
    /\ pc = "start"
    /\ points \in TestInputs
    /\ conflict_radius \in TestRadii
    /\ limit \in -2..(Len(points) + 1)
    /\ drones = <<>> /\ boundaries = <<>> /\ sectors = <<>> /\ ix = 0
    /\ conflicts = <<>> /\ batch_conflicts = <<>> /\ returned = <<>>
    /\ SecIdle /\ ScanIdle

\* Line 222.
Validate ==
    /\ pc = "start"
    /\ pc' = IF LimitOK(limit, Len(points)) THEN "validated" ELSE "AssertionError"
    /\ UNCHANGED <<points, conflict_radius, limit, drones, boundaries, sectors,
                   ix, conflicts, batch_conflicts, returned>>
    /\ UNCHANGED <<secVars, scanVars>>

\* Lines 226-229: split_into_sectors() is called with its defaults.
Build ==
    /\ pc = "validated"
    /\ LET out == split_into_sectors(AIRSPACE_SIZE, CONFLICT_RADIUS, PAD_MULT)
       IN  /\ drones' = MakeDrones(points)
           /\ boundaries' = out.boundaries
           /\ sectors' = out.sectors
    /\ ix' = 0
    /\ pc' = "assign"
    /\ UNCHANGED <<points, conflict_radius, limit, conflicts, batch_conflicts,
                   returned>>
    /\ UNCHANGED <<secVars, scanVars>>

\* Lines 232-239: one pass of the loop over drones[0:limit].
Assign ==
    /\ pc = "assign"
    /\ ix < Len(PySlice(drones, limit))
    /\ LET out == AssignDrone(sectors, boundaries, PySlice(drones, limit)[ix + 1])
       IN  /\ sectors' = out.sectors
           /\ IF out.error = None
              THEN ix' = ix + 1 /\ pc' = "assign"
              ELSE ix' = ix /\ pc' = out.error
    /\ UNCHANGED <<points, conflict_radius, limit, drones, boundaries,
                   conflicts, batch_conflicts, returned>>
    /\ UNCHANGED <<secVars, scanVars>>

\* Lines 244-258: the sector scan, the count, the benchmark scan, the return.
Scan ==
    /\ pc = "assign"
    /\ ix = Len(PySlice(drones, limit))
    /\ conflicts' = ScanSectors(sectors, conflict_radius)
    /\ returned' = <<Len(npUnique(conflicts'))>>
    /\ batch_conflicts' =
          IF limit # -1
          THEN get_conflicts(PySlice(drones, limit), conflict_radius)
          ELSE batch_conflicts
    /\ pc' = "done"
    /\ UNCHANGED <<points, conflict_radius, limit, drones, boundaries, sectors,
                   ix>>
    /\ UNCHANGED <<secVars, scanVars>>

Next == Validate \/ Build \/ Assign \/ Scan

Spec == Init /\ [][Next]_vars

TypeOK ==
    /\ pc \in {"start", "validated", "assign", "done", "AssertionError", "KeyError"}
    /\ returned \in {<<>>} \cup {<<n>> : n \in 0..Len(points)}

(***************************************************************************)
(* SpecSectors: split_into_sectors, then map_coordinate on its boundaries.  *)
(***************************************************************************)
InitSectors ==
    /\ s_pc = "start"
    /\ s_args \in [airspace_size : -1..MaxAirspace,
                   conflict_radius : -1..MaxRadius,
                   pad_mult : 1..MaxPad]
    /\ s_out = NotCalled /\ s_position = 0 /\ s_mapped = <<>>
    /\ CcIdle /\ ScanIdle

SplitIntoSectors ==
    /\ s_pc = "start"
    /\ s_out' = split_into_sectors(s_args.airspace_size, s_args.conflict_radius,
                                   s_args.pad_mult)
    /\ s_pc' = IF s_out'.error = None THEN "split" ELSE s_out'.error
    /\ UNCHANGED <<s_args, s_position, s_mapped>>
    /\ UNCHANGED <<ccVars, scanVars>>

MapCoordinate ==
    /\ s_pc = "split"
    /\ \E p \in -2..(s_args.airspace_size + 2) :
          /\ s_position' = p
          /\ s_mapped' = map_coordinate(s_out.boundaries, p)
    /\ s_pc' = "mapped"
    /\ UNCHANGED <<s_args, s_out>>
    /\ UNCHANGED <<ccVars, scanVars>>

NextSectors == SplitIntoSectors \/ MapCoordinate

SpecSectors == InitSectors /\ [][NextSectors]_vars

(***************************************************************************)
(* SpecScan: get_conflicts on one bucket.                                  *)
(***************************************************************************)
BucketCoords == { <<0, 0>>, <<3, 0>>, <<3, 4>>, <<0, 4>> }

BucketRadii == {0, 3, 4, 5, 6}

\* The lists of n drones with pairwise different ids 0..n-1, in any order.
Buckets(n) ==
    { [i \in 1..n |-> Drone(cs[i], ids[i])] :
        cs \in [1..n -> BucketCoords],
        ids \in {f \in [1..n -> 0..(n - 1)] :
                    \A i, j \in 1..n : f[i] = f[j] => i = j} }

InitScan ==
    /\ g_pc = "start"
    /\ g_drones \in UNION {Buckets(n) : n \in 0..MaxBucket}
    /\ g_rad \in BucketRadii
    /\ g_out = <<>>
    /\ CcIdle /\ SecIdle

GetConflicts ==
    /\ g_pc = "start"
    /\ g_out' = get_conflicts(g_drones, g_rad)
    /\ g_pc' = "returned"
    /\ UNCHANGED <<g_drones, g_rad>>
    /\ UNCHANGED <<ccVars, secVars>>

NextScan == GetConflicts

SpecScan == InitScan /\ [][NextScan]_vars

(***************************************************************************)
(* What the properties speak of, stated without the program's operators.   *)
(***************************************************************************)
\* Euclidean distance of p and q strictly below rad.  The Abs conjuncts
\* follow from the last one and keep the squares within machine integers.
Near(p, q, rad) ==
    /\ rad > 0
    /\ Abs(p[1] - q[1]) < rad
    /\ Abs(p[2] - q[2]) < rad
    /\ (p[1] - q[1]) * (p[1] - q[1]) + (p[2] - q[2]) * (p[2] - q[2]) < rad * rad

\* The all-pairs count over a list of points.
BruteCount(pts, rad) ==
    Cardinality({i \in 1..Len(pts) :
                    \E j \in 1..Len(pts) : j # i /\ Near(pts[i], pts[j], rad)})

\* The ids of the drones of a bucket that have another drone of the bucket
\* (another position of the list) nearer than rad.
FlaggedIn(bucket, rad) ==
    {bucket[a].drone_id :
        a \in {a \in 1..Len(bucket) :
                  \E b \in 1..Len(bucket) :
                      b # a /\ Near(bucket[a].coords, bucket[b].coords, rad)}}

InAirspace(p) ==
    /\ 0 <= p[1] /\ p[1] <= AIRSPACE_SIZE
    /\ 0 <= p[2] /\ p[2] <= AIRSPACE_SIZE

\* How often drone d stands in bucket b.
Occurrences(b, d) == Cardinality({i \in 1..Len(b) : b[i] = d})

Assigned(d) == \E k \in DOMAIN sectors : Occurrences(sectors[k], d) > 0

\* The drones the Assigner walks through.
Processed == PySlice(drones, limit)

AssignerDone == pc = "done" \/ (pc = "assign" /\ ix = Len(Processed))

\* 0-based position of the first boundary strictly above c, the last
\* position when there is none: the number of boundaries not above c.
HiCell(bnds, c) ==
    LET n == Cardinality({i \in 1..Len(bnds) : bnds[i] <= c})
    IN  IF n = Len(bnds) THEN Len(bnds) - 1 ELSE n

(***************************************************************************)
(* Consistency of the step-wise call with count_conflicts as a function.   *)
(***************************************************************************)
StepsAgreeWithFunction ==
    LET f == count_conflicts(points, conflict_radius, limit)
    IN  /\ pc = "done" => f.error = None /\ returned = <<f.value>>
        /\ pc \in {"AssertionError", "KeyError"} => f.error = pc

(***************************************************************************)
(* C1.  With the default options (limit = -1), points inside the airspace  *)
(* and a positive radius, count_conflicts returns the all-pairs count of   *)
(* the whole input.                                                        *)
(***************************************************************************)
C1_EqualsBruteForce ==
    (/\ pc = "done"
     /\ limit = -1
     /\ conflict_radius > 0
     /\ \A i \in 1..Len(points) : InAirspace(points[i]))
    => returned = <<BruteCount(points, conflict_radius)>>

(***************************************************************************)
(* C2.  limit only picks a prefix: unset (-1), every input point is        *)
(* assigned and the count is the one of limit = len(points); with          *)
(* limit = k >= 0 exactly the first k points are assigned and no point at  *)
(* index >= k is counted.                                                  *)
(***************************************************************************)
C2_LimitIsPrefix ==
    (pc = "done" /\ \A i \in 1..Len(points) : InAirspace(points[i]))
    => /\ limit = -1 =>
            /\ \A i \in 1..Len(drones) : Assigned(drones[i])
            /\ returned =
                 <<count_conflicts(points, conflict_radius, Len(points)).value>>
       /\ limit >= 0 =>
            /\ \A i \in 1..Len(drones) : Assigned(drones[i]) <=> i <= limit
            /\ \A v \in Range(conflicts) : v < limit

(***************************************************************************)
(* C3.  After the Assigner pass every two assigned points nearer than the  *)
(* conflict_radius given to count_conflicts share a sector bucket.         *)
(***************************************************************************)
C3_ConflictPairSharesSector ==
    AssignerDone =>
        \A i, j \in 1..Len(Processed) :
            (i # j /\ Near(Processed[i].coords, Processed[j].coords,
                           conflict_radius))
            => \E k \in DOMAIN sectors :
                  /\ Occurrences(sectors[k], Processed[i]) > 0
                  /\ Occurrences(sectors[k], Processed[j]) > 0

(***************************************************************************)
(* C4.  The returned count is the number of distinct drone ids flagged in  *)
(* any sector: an id counts once, however many sectors or partners flag    *)
(* it, and two points at the same coordinates count as two.                *)
(***************************************************************************)
C4_CountsDistinctIds ==
    pc = "done" =>
        returned =
          <<Cardinality(UNION {FlaggedIn(sectors[k], conflict_radius) :
                                  k \in DOMAIN sectors})>>

\* Three points, the first with two partners, flagged in sectors that flag
\* different sets of ids (the buckets with x = 0 hold the first two points,
\* those with x = 1 all three), and more entries collected than ids counted.
C4_Witness ==
    /\ pc = "done"
    /\ points = <<<<0, 0>>, <<4999, 0>>, <<5000, 0>>>>
    /\ limit = 3
    /\ Near(points[1], points[2], conflict_radius)
    /\ Near(points[1], points[3], conflict_radius)
    /\ FlaggedIn(sectors[<<0, 0>>], conflict_radius) = {0, 1}
    /\ FlaggedIn(sectors[<<1, 0>>], conflict_radius) = {0, 1, 2}
    /\ returned = <<3>>
    /\ Len(conflicts) > 3

(***************************************************************************)
(* C5.  A limit above len(points) or below -1 fails at once, before any    *)
(* Drone, boundary list or sector exists and without a count; every limit  *)
(* in 0..len(points), and -1, passes the validation.                       *)
(***************************************************************************)
C5_LimitValidation ==
    /\ (limit > Len(points) \/ limit < -1) =>
          /\ pc \in {"start", "AssertionError"}
          /\ drones = <<>> /\ boundaries = <<>> /\ DOMAIN sectors = {}
          /\ returned = <<>>
    /\ ((0 <= limit /\ limit <= Len(points)) \/ limit = -1) =>
          pc # "AssertionError"

C5_Witness ==
    /\ pc = "AssertionError"
    /\ limit = Len(points) + 1
    /\ Len(points) > 0

(***************************************************************************)
(* C6.  split_into_sectors rejects a non-positive conflict_radius or       *)
(* airspace_size: it raises an error and produces no boundary list and no  *)
(* sector map.                                                             *)
(***************************************************************************)
C6_NonPositiveRejected ==
    (/\ s_pc # "start"
     /\ (s_args.conflict_radius <= 0 \/ s_args.airspace_size <= 0))
    => /\ s_out.error # None
       /\ s_out.boundaries = <<>>
       /\ DOMAIN s_out.sectors = {}

(***************************************************************************)
(* C7.  The Assigner raises no error on any coordinate value: every index  *)
(* pair it forms is a key of the sector map and the call returns a count.  *)
(***************************************************************************)
C7_NoErrorOnAnyCoordinate ==
    /\ pc # "KeyError"
    /\ pc \in {"assign", "done"} =>
          \A i \in 1..Len(Processed) :
              \A loc \in Range(SectorLocs(
                            map_coordinate(boundaries, Processed[i].coords[1]),
                            map_coordinate(boundaries, Processed[i].coords[2]))) :
                  loc \in DOMAIN sectors

(***************************************************************************)
(* C8.  For positive airspace_size, conflict_radius and pad_mult the       *)
(* boundary list starts at 0, ends at airspace_size, is strictly           *)
(* increasing, has every gap equal to conflict_radius*pad_mult but         *)
(* possibly the last (positive and no larger), and the sector map has an   *)
(* empty bucket for exactly the keys (x, y), 0 <= x, y <= len(boundaries). *)
(***************************************************************************)
C8_BoundariesAndKeys ==
    (/\ s_pc # "start"
     /\ s_args.airspace_size > 0 /\ s_args.conflict_radius > 0
     /\ s_args.pad_mult > 0)
    => LET b == s_out.boundaries
           n == Len(b)
           step == s_args.conflict_radius * s_args.pad_mult
       IN  /\ s_out.error = None
           /\ n >= 2
           /\ b[1] = 0
           /\ b[n] = s_args.airspace_size
           /\ \A i \in 1..(n - 1) : b[i] < b[i + 1]
           /\ \A i \in 1..(n - 2) : b[i + 1] - b[i] = step
           /\ 0 < b[n] - b[n - 1] /\ b[n] - b[n - 1] <= step
           /\ DOMAIN s_out.sectors = (0..n) \X (0..n)
           /\ \A k \in DOMAIN s_out.sectors : s_out.sectors[k] = <<>>

C8_Witness ==
    /\ s_pc = "split"
    /\ s_args = [airspace_size |-> 20, conflict_radius |-> 4, pad_mult |-> 2]
    /\ s_out.boundaries = <<0, 8, 16, 20>>
    /\ DOMAIN s_out.sectors = (0..4) \X (0..4)

(***************************************************************************)
(* C9.  get_conflicts returns exactly the ids of the drones that have      *)
(* another drone of the bucket strictly nearer than the radius: a pair at  *)
(* distance equal to the radius flags nobody, a pair at distance 0 flags   *)
(* both, fewer than two drones give the empty list.                        *)
(***************************************************************************)
C9_ScanFlagsExactly ==
    g_pc = "returned" =>
        /\ Range(g_out) = FlaggedIn(g_drones, g_rad)
        /\ Len(g_drones) < 2 => g_out = <<>>

C9_Witness ==
    /\ g_pc = "returned"
    /\ g_rad = 5
    /\ Len(g_drones) = 3
    /\ g_drones[1].coords = <<0, 0>>
    /\ g_drones[2].coords = <<3, 4>>
    /\ g_drones[3].coords = <<0, 0>>
    /\ Range(g_out) = {g_drones[1].drone_id, g_drones[3].drone_id}

(***************************************************************************)
(* C10. For a coordinate in [0, airspace_size] map_coordinate returns      *)
(* (hi - 1, hi), hi the position of the first boundary strictly above the  *)
(* coordinate or the last position when there is none; so the Assigner     *)
(* appends every processed point once to each of its four buckets and to   *)
(* no other bucket.                                                        *)
(***************************************************************************)
C10_FourBuckets ==
    pc \in {"assign", "done", "KeyError"} =>
        LET done == Processed
            \* the buckets that hold a drone: a drone stands in no other
            filled == {k \in DOMAIN sectors : sectors[k] # <<>>}
        IN  /\ \A i \in 1..Len(done) :
                  InAirspace(done[i].coords) =>
                     LET d == done[i]
                         hx == HiCell(boundaries, d.coords[1])
                         hy == HiCell(boundaries, d.coords[2])
                         four == IF i <= ix THEN {hx - 1, hx} \X {hy - 1, hy}
                                 ELSE {}
                     IN  /\ map_coordinate(boundaries, d.coords[1]) = <<hx - 1, hx>>
                         /\ map_coordinate(boundaries, d.coords[2]) = <<hy - 1, hy>>
                         /\ \A k \in four :
                               /\ k \in filled
                               /\ Occurrences(sectors[k], d) = 1
                         /\ \A k \in filled \ four :
                               Occurrences(sectors[k], d) = 0
            /\ pc = "KeyError" => ~InAirspace(done[ix + 1].coords)

\* A point on an inner boundary (x = 5000: the higher cell) and a point on
\* the outer edge (x = 128000: no boundary is above, the last position 26).
C10_Witness ==
    /\ pc = "done"
    /\ \E i \in 1..Len(Processed) :
          /\ Processed[i].coords = <<5000, 0>>
          /\ {k \in DOMAIN sectors : Occurrences(sectors[k], Processed[i]) > 0}
               = {<<1, 0>>, <<1, 1>>, <<2, 0>>, <<2, 1>>}
    /\ \E i \in 1..Len(Processed) :
          /\ Processed[i].coords = <<AIRSPACE_SIZE, 0>>
          /\ map_coordinate(boundaries, AIRSPACE_SIZE) = <<25, 26>>
          /\ {k \in DOMAIN sectors : Occurrences(sectors[k], Processed[i]) > 0}
               = {<<25, 0>>, <<25, 1>>, <<26, 0>>, <<26, 1>>}

====
